---- MODULE Spec2Model ----
(***************************************************************************)
(* Seat-state reconciliation and change-log engine of the library seat     *)
(* map.  Three page scripts share the same helpers:                        *)
(*   push   : src/Web/js/main.js (socket.io "status_update" events)        *)
(*   replay : src/Web/frontend/js/main.js, second script (lines 233-514),  *)
(*            a timer replays a pre-loaded list of frames                  *)
(*   fetch  : src/Web/frontend/js/main.js, first script (lines 1-231),     *)
(*            one initial fetch of a single snapshot                       *)
(* Exactly one script runs in a page; mode records which one.              *)
(***************************************************************************)
EXTENDS Integers, Sequences, FiniteSets, TLC

VARIABLES mode, currentSeats, lastTimestamp, currentSeatLogs,
          simulationData, currentIndex, simulationInterval,
          summary, loaded, error, ticks, lastOp, lastData,
          detailId, panel, clickable,
          statusText, signals, alerts, emitted, lastMessage, recorded

vars == <<mode, currentSeats, lastTimestamp, currentSeatLogs,
          simulationData, currentIndex, simulationInterval,
          summary, loaded, error, ticks, lastOp, lastData,
          detailId, panel, clickable,
          statusText, signals, alerts, emitted, lastMessage, recorded>>

\* ---------------------------------------------------------------- bounds
\* snapshots delivered by the socket in one run of the push script
MaxPush == 3
\* timer ticks in one run of the replay script
MaxReplay == 12
\* frames in the pre-loaded replay list
MaxFrames == 2

\* ------------------------------------------------------- program constants
\* "Max 5 logs"
LogCap == 5

Occupied == "Occupied"
OnHold == "On-Hold"
Empty == "Empty"
\* the value of a missing property
Undefined == "undefined"

\* STATUS_MAP[statusCode]
STATUS_MAP(code) ==
  CASE code = 1 -> Occupied
    [] code = 2 -> OnHold
    [] code = 3 -> Empty
    [] OTHER -> Undefined

\* ------------------------------------------------------------ input domain
\* Raw seat keys are sequences of characters, so that toUpperCase acts on
\* the characters themselves.
kt1 == <<"t", "1">>
kT1 == <<"T", "1">>
kT2 == <<"T", "2">>
\* keys the socket reports, in the order the object enumerates them
PushKeys == <<kt1, kT1, kT2>>
\* keys of the replay file
ReplayKeys == <<kT1, kT2>>
\* codes the socket delivers per key: the lower-case key is seen Occupied or
\* Empty, T1 with every known code and with an unknown one, T2 Empty
PushCodes == <<{1, 3}, {1, 2, 3, 9}, {3}>>
\* codes of the recorded replay file, per key
ReplayCodes == <<{1, 2, 3}, {1, 3}>>

\* status_codes objects over a key list: f gives every key a code, or 0 when
\* the object lacks the key; enumeration (for..in) follows the key list
RECURSIVE StatusCodesOf(_, _, _)
StatusCodesOf(keys, f, i) ==
  IF i > Len(keys) THEN <<>>
  ELSE IF f[i] = 0 THEN StatusCodesOf(keys, f, i + 1)
  ELSE <<[key |-> keys[i], code |-> f[i]]>> \o StatusCodesOf(keys, f, i + 1)

RawSnapshots(keys, codes) ==
  {StatusCodesOf(keys, f, 1) :
     f \in {g \in [1..Len(keys) -> 0..9] :
              \A i \in 1..Len(keys) : g[i] \in codes[i] \cup {0}}}

\* what the socket can deliver, what the replay file can hold per frame
PushSnapshots == RawSnapshots(PushKeys, PushCodes)
ReplaySnapshots == RawSnapshots(ReplayKeys, ReplayCodes)

\* the timestamp string of the n-th snapshot the backend produces
Stamp(n) == ToString(n)

\* replay files: frame i (0-based) carries timestamp Stamp(i)
FrameLists ==
  UNION {{[i \in 1..n |-> [timestamp |-> Stamp(i - 1), status_codes |-> g[i]]] :
            g \in [1..n -> ReplaySnapshots]} : n \in 0..MaxFrames}

\* ------------------------------------------------------------------ helpers
UpperChar(c) ==
  CASE c = "t" -> "T"
    [] OTHER -> c

\* an ingestion that keeps the raw key as the seat id
ToUpperCase_asIs(s) == s

\* String.prototype.toUpperCase
ToUpperCase(s) == [i \in 1..Len(s) |-> UpperChar(s[i])]

\* processBackendData without the `if (statusString)` test
RECURSIVE SeatArrayOf_unfiltered(_)
SeatArrayOf_unfiltered(statusCodes) ==
  IF statusCodes = <<>> THEN <<>>
  ELSE LET e == Head(statusCodes)
       IN <<[id |-> ToUpperCase(e.key), status |-> STATUS_MAP(e.code)]>>
            \o SeatArrayOf_unfiltered(Tail(statusCodes))

\* processBackendData: seatArray in enumeration order, unknown codes skipped
RECURSIVE SeatArrayOf(_)
SeatArrayOf(statusCodes) ==
  IF statusCodes = <<>> THEN <<>>
  ELSE LET e == Head(statusCodes)
           statusString == STATUS_MAP(e.code)
       IN (IF statusString # Undefined
           THEN <<[id |-> ToUpperCase(e.key), status |-> statusString]>>
           ELSE <<>>) \o SeatArrayOf(Tail(statusCodes))

processBackendData(jsonObject) ==
  [seatArray |-> SeatArrayOf(jsonObject.status_codes),
   timestamp |-> jsonObject.timestamp]

\* index of the first seat with this id, 0 when Array.prototype.find
\* returns undefined
RECURSIVE FindFrom(_, _, _)
FindFrom(seats, id, i) ==
  IF i > Len(seats) THEN 0
  ELSE IF seats[i].id = id THEN i
  ELSE FindFrom(seats, id, i + 1)

Find(seats, id) == FindFrom(seats, id, 1)

\* a slice that keeps the last n elements
Slice_tail(s, n) == IF Len(s) > n THEN SubSeq(s, Len(s) - n + 1, Len(s)) ELSE s

\* Array.prototype.slice(0, n)
Slice(s, n) == IF Len(s) > n THEN SubSeq(s, 1, n) ELSE s

\* currentSeatLogs[seatId] || []
LogsOf(logs, seatId) == IF seatId \in DOMAIN logs THEN logs[seatId] ELSE <<>>

\* the template with the two statuses swapped
Message_swapped(oldStatus, newStatus) == <<newStatus, " -> ", oldStatus>>

\* the template `${oldStatus} -> ${newStatus}`, kept as its three parts
Message(oldStatus, newStatus) == <<oldStatus, " -> ", newStatus>>

\* addLogEntry that never cuts the list
addLogEntry_uncut(logs, seatId, timestamp, oldStatus, newStatus) ==
  LET entry == [t |-> timestamp, msg |-> Message(oldStatus, newStatus)]
      pushed == <<entry>> \o LogsOf(logs, seatId)
  IN [s \in DOMAIN logs \cup {seatId} |->
        IF s = seatId THEN pushed ELSE logs[s]]

\* addLogEntry: unshift, then cut to the first five
addLogEntry(logs, seatId, timestamp, oldStatus, newStatus) ==
  LET entry == [t |-> timestamp, msg |-> Message(oldStatus, newStatus)]
      pushed == <<entry>> \o LogsOf(logs, seatId)
      kept == IF Len(pushed) > LogCap THEN Slice(pushed, LogCap) ELSE pushed
  IN [s \in DOMAIN logs \cup {seatId} |-> IF s = seatId THEN kept ELSE logs[s]]

\* the forEach body taking a seat that the held table lacks for an Empty one
CheckSeat_missingIsEmpty(logs, oldSeats, newSeat, timestamp) ==
  LET k == Find(oldSeats, newSeat.id)
      oldStatus == IF k = 0 THEN Empty ELSE oldSeats[k].status
  IN IF oldStatus # newSeat.status /\ newSeat.status = Occupied
     THEN addLogEntry(logs, newSeat.id, timestamp, oldStatus, newSeat.status)
     ELSE logs

\* the forEach body without the "only when it becomes Occupied" filter
CheckSeat_anyChange(logs, oldSeats, newSeat, timestamp) ==
  LET k == Find(oldSeats, newSeat.id)
  IN IF k # 0 /\ oldSeats[k].status # newSeat.status
     THEN addLogEntry(logs, newSeat.id, timestamp,
                      oldSeats[k].status, newSeat.status)
     ELSE logs

\* body of the forEach over the new seat array (one seat)
CheckSeat(logs, oldSeats, newSeat, timestamp) ==
  LET k == Find(oldSeats, newSeat.id)
  IN IF k # 0 /\ oldSeats[k].status # newSeat.status
        /\ newSeat.status = Occupied
     THEN addLogEntry(logs, newSeat.id, timestamp,
                      oldSeats[k].status, newSeat.status)
     ELSE logs

\* the forEach stamping its entries with the timestamp held before the tick
RECURSIVE LogTransitions_oldStamp(_, _, _, _)
LogTransitions_oldStamp(logs, oldSeats, seatArray, timestamp) ==
  IF seatArray = <<>> THEN logs
  ELSE LogTransitions_oldStamp(
         CheckSeat(logs, oldSeats, Head(seatArray), lastTimestamp),
         oldSeats, Tail(seatArray), timestamp)

\* seatArray.forEach(newSeat => ...), in array order
RECURSIVE LogTransitions(_, _, _, _)
LogTransitions(logs, oldSeats, seatArray, timestamp) ==
  IF seatArray = <<>> THEN logs
  ELSE LogTransitions(CheckSeat(logs, oldSeats, Head(seatArray), timestamp),
                      oldSeats, Tail(seatArray), timestamp)

CountKeys == {Occupied, OnHold, Empty, "Total"}

\* the counting loop with the On-Hold card keyed "OnHold": such seats are
\* never counted
RECURSIVE CountSeats_onHoldMisspelt(_, _)
CountSeats_onHoldMisspelt(counts, data) ==
  IF data = <<>> THEN counts
  ELSE LET st == Head(data).status
       IN CountSeats_onHoldMisspelt(
            IF st \in DOMAIN counts /\ st # OnHold
            THEN [counts EXCEPT ![st] = @ + 1]
            ELSE counts,
            Tail(data))

\* data.forEach(seat => counts[seat.status]++ when counts has that key)
RECURSIVE CountSeats(_, _)
CountSeats(counts, data) ==
  IF data = <<>> THEN counts
  ELSE LET st == Head(data).status
       IN CountSeats(IF st \in DOMAIN counts
                     THEN [counts EXCEPT ![st] = @ + 1]
                     ELSE counts,
                     Tail(data))

\* updateSummaryCards: the counts written to the summary cards
updateSummaryCards(data, timestamp) ==
  [counts |-> CountSeats([k \in CountKeys |->
                            IF k = "Total" THEN Len(data) ELSE 0], data),
   timestamp |-> timestamp]

\* ------------------------------------------------------------- detail panel
\* text of #detail-id after resetSeatDetails; seat ids are character
\* sequences, so the placeholder is a sequence as well
NoSeatChosen == <<"Klik salah satu kursi">>

\* content of #log-list: a placeholder or the rendered entries
PanelReset == [placeholder |-> "Pilih kursi", entries |-> <<>>]
PanelNoLogs == [placeholder |-> "Belum ada perubahan", entries |-> <<>>]

\* renderLogList that returns early on an empty log and leaves the list as
\* it was
renderLogList_keepsOld(logs, seatId, shown) ==
  LET l == LogsOf(logs, seatId)
  IN IF Len(l) = 0 THEN shown
     ELSE [placeholder |-> "", entries |-> l]

\* renderLogList: the new content of #log-list (shown is the old one)
renderLogList(logs, seatId, shown) ==
  LET l == LogsOf(logs, seatId)
  IN IF Len(l) = 0 THEN PanelNoLogs
     ELSE [placeholder |-> "", entries |-> l]

\* the forEach body reaches addLogEntry for this seat
AddsEntry(oldSeats, newSeat) ==
  LET k == Find(oldSeats, newSeat.id)
  IN k # 0 /\ oldSeats[k].status # newSeat.status
       /\ newSeat.status = Occupied

\* the forEach with an addLogEntry that never refreshes the sidebar
RenderTransitions_noRefresh(shown, detail, logs, oldSeats, seatArray, timestamp) ==
  shown

\* the end of addLogEntry, over the whole forEach: each time an entry is
\* added for the seat named in #detail-id, #log-list is rendered again
RECURSIVE RenderTransitions(_, _, _, _, _, _)
RenderTransitions(shown, detail, logs, oldSeats, seatArray, timestamp) ==
  IF seatArray = <<>> THEN shown
  ELSE LET newSeat == Head(seatArray)
           logs2 == CheckSeat(logs, oldSeats, newSeat, timestamp)
           shown2 == IF AddsEntry(oldSeats, newSeat) /\ detail = newSeat.id
                     THEN renderLogList(logs2, newSeat.id, shown)
                     ELSE shown
       IN RenderTransitions(shown2, detail, logs2, oldSeats,
                            Tail(seatArray), timestamp)

\* renderSeatMap: every seat of the list gets its click handler (the page
\* has a chair element for every seat id); handlers stay once installed
renderSeatMap(handlers, data) ==
  handlers \cup {data[i].id : i \in 1..Len(data)}

\* ------------------------------------------------------------- status line
\* content of #last-updated-text: icon and message are empty when the line
\* was written by updateSummaryCards
NoStatusText == [icon |-> "", message |-> "", lastUpdated |-> ""]
LastUpdatedText(timestamp) ==
  [icon |-> "", message |-> "", lastUpdated |-> timestamp]
ErrorLoadingText ==
  [icon |-> "", message |-> "Error loading data.", lastUpdated |-> ""]

\* updateConnectionStatus: the new content of #last-updated-text
updateConnectionStatus(message, isConnected, timestamp) ==
  [icon |-> IF isConnected THEN "green" ELSE "red",
   message |-> message, lastUpdated |-> timestamp]

\* ----------------------------------------------------------- error messages
UpperLetters ==
  <<"A", "B", "C", "D", "E", "F", "G", "H", "I", "J", "K", "L", "M", "N", "O", "P", "Q", "R", "S", "T", "U", "V", "W", "X", "Y", "Z">>
LowerLetters ==
  <<"a", "b", "c", "d", "e", "f", "g", "h", "i", "j", "k", "l", "m", "n", "o", "p", "q", "r", "s", "t", "u", "v", "w", "x", "y", "z">>

\* String.prototype.toLowerCase, one character
LowerChar(c) ==
  IF \E i \in 1..Len(UpperLetters) : UpperLetters[i] = c
  THEN LowerLetters[CHOOSE i \in 1..Len(UpperLetters) : UpperLetters[i] = c]
  ELSE c

\* String.prototype.toLowerCase
ToLowerCase(s) == [i \in 1..Len(s) |-> LowerChar(s[i])]

\* String.prototype.includes
Includes(s, sub) ==
  \E i \in 0..(Len(s) - Len(sub)) : SubSeq(s, i + 1, i + Len(sub)) = sub

\* the literal "already running"
AlreadyRunning ==
  <<"a", "l", "r", "e", "a", "d", "y", " ", "r", "u", "n", "n", "i", "n", "g">>

\* messages of the error events the backend sends
ErrorMessages ==
  {<<"D", "e", "t", "e", "c", "t", "i", "o", "n", " ", "a", "l", "r", "e", "a", "d", "y", " ", "r", "u", "n", "n", "i", "n", "g">>,
   <<"D", "e", "t", "e", "c", "t", "i", "o", "n", " ", "A", "l", "r", "e", "a", "d", "y", " ", "R", "u", "n", "n", "i", "n", "g", "!">>,
   <<"C", "a", "m", "e", "r", "a", " ", "n", "o", "t", " ", "f", "o", "u", "n", "d">>}

\* -------------------------------------------------------------------- state
\* Besides the scripts' globals the state records, for the properties below:
\* ticks (snapshots delivered so far), lastOp (the handler that ran last)
\* and lastData (the snapshot object that was applied last).
\* detailId and panel are the contents of #detail-id and #log-list, clickable
\* the seats whose wrapper has an onclick handler.  currentSelectedChair and
\* currentSelectedSeat are written by clicks and read only for styling; they
\* name the same seat as detailId and are not kept separately.
\* statusText is the content of #last-updated-text, signals counts the
\* connectivity events delivered, alerts the alert() dialogs shown and
\* emitted the start_detection requests sent; lastMessage is the message of
\* the error event delivered last.
\* recorded is a history variable of LogSpec, the specification that calls
\* addLogEntry directly: the entries handed to it, per seat, oldest first.

NoData == [timestamp |-> "---", status_codes |-> <<>>]

Init ==
  /\ mode \in {"push", "push5000", "replay", "fetch"}
  /\ currentSeats = <<>>
  /\ lastTimestamp = "---"
  /\ currentSeatLogs = <<>>
  /\ simulationData = <<>>
  /\ currentIndex = 0
  /\ simulationInterval = FALSE
  /\ summary = <<>>
  /\ loaded = FALSE
  /\ error = FALSE
  /\ ticks = 0
  /\ lastOp = "load"
  /\ lastData = NoData
  /\ detailId = NoSeatChosen
  /\ panel = PanelReset
  /\ clickable = {}
  /\ statusText = NoStatusText
  /\ signals = 0
  /\ alerts = 0
  /\ emitted = 0
  /\ lastMessage = <<>>
  /\ recorded = <<>>

\* the two socket scripts
PushModes == {"push", "push5000"}

\* the socket delivers another event: status updates and connectivity events
\* of one run are counted against MaxPush together
SocketOpen ==
  /\ mode \in PushModes
  /\ ticks + signals < MaxPush

\* seats of the old table that the new seat array does not report
RECURSIVE StaleSeats(_, _)
StaleSeats(oldSeats, seatArray) ==
  IF oldSeats = <<>> THEN <<>>
  ELSE (IF Find(seatArray, Head(oldSeats).id) = 0
        THEN <<Head(oldSeats)>> ELSE <<>>)
         \o StaleSeats(Tail(oldSeats), seatArray)

\* a status_update handler that forgets the logs of seats the snapshot lacks
onStatusUpdate_pruneLogs(held, data) ==
  LET p == processBackendData(data)
      logs == LogTransitions(held.currentSeatLogs, held.currentSeats,
                             p.seatArray, p.timestamp)
  IN [currentSeats |-> p.seatArray, lastTimestamp |-> p.timestamp,
      currentSeatLogs |->
        [s \in {x \in DOMAIN logs : Find(p.seatArray, x) # 0} |-> logs[s]]]

\* a status_update handler that replaces the table without looking for
\* changes
onStatusUpdate_noDetection(held, data) ==
  LET p == processBackendData(data)
  IN [currentSeats |-> p.seatArray, lastTimestamp |-> p.timestamp,
      currentSeatLogs |-> held.currentSeatLogs]

\* socket.on("status_update"): the globals it assigns, from the ones held
onStatusUpdate(held, data) ==
  LET p == processBackendData(data)
  IN [currentSeats |-> p.seatArray, lastTimestamp |-> p.timestamp,
      currentSeatLogs |->
        LogTransitions(held.currentSeatLogs, held.currentSeats, p.seatArray,
                       p.timestamp)]

\* the status_update handler merging the new seats into the held table
\* instead of replacing it
StatusUpdate_merge(data) ==
  /\ SocketOpen
  /\ LET p == processBackendData(data)
     IN /\ currentSeatLogs' =
             LogTransitions(currentSeatLogs, currentSeats, p.seatArray,
                            p.timestamp)
        /\ currentSeats' = p.seatArray \o StaleSeats(currentSeats, p.seatArray)
        /\ lastTimestamp' = p.timestamp
        /\ summary' = <<updateSummaryCards(p.seatArray, p.timestamp)>>
        /\ statusText' = LastUpdatedText(p.timestamp)
        /\ panel' = RenderTransitions(panel, detailId, currentSeatLogs,
                                      currentSeats, p.seatArray, p.timestamp)
        /\ clickable' = renderSeatMap(clickable, p.seatArray)
  /\ ticks' = ticks + 1
  /\ lastOp' = "status_update"
  /\ lastData' = data
  /\ UNCHANGED <<mode, recorded, signals, alerts, emitted, lastMessage, simulationData, currentIndex, simulationInterval,
                 loaded, error, detailId>>

\* socket.on("status_update", data => ...)
StatusUpdate(data) ==
  /\ SocketOpen
  /\ LET p == processBackendData(data)
         r == onStatusUpdate([currentSeats |-> currentSeats,
                              lastTimestamp |-> lastTimestamp,
                              currentSeatLogs |-> currentSeatLogs], data)
     IN /\ currentSeatLogs' = r.currentSeatLogs
        /\ currentSeats' = r.currentSeats
        /\ lastTimestamp' = r.lastTimestamp
        /\ summary' = <<updateSummaryCards(p.seatArray, p.timestamp)>>
        /\ statusText' = LastUpdatedText(p.timestamp)
        /\ panel' = RenderTransitions(panel, detailId, currentSeatLogs,
                                      currentSeats, p.seatArray, p.timestamp)
        /\ clickable' = renderSeatMap(clickable, p.seatArray)
  /\ ticks' = ticks + 1
  /\ lastOp' = "status_update"
  /\ lastData' = data
  /\ UNCHANGED <<mode, recorded, signals, alerts, emitted, lastMessage, simulationData, currentIndex, simulationInterval,
                 loaded, error, detailId>>

\* `Status set to ${seat.status}`
SeedMessage(status) == <<"Status set to ", status>>

\* fetch script: seatArray.forEach(seat => ...) that initializes the logs
RECURSIVE SeedLogs(_, _, _)
SeedLogs(logs, seatArray, timestamp) ==
  IF seatArray = <<>> THEN logs
  ELSE LET seat == Head(seatArray)
           cur == LogsOf(logs, seat.id)
           seeded == IF Len(cur) = 0
                     THEN <<[t |-> timestamp, msg |-> SeedMessage(seat.status)]>>
                     ELSE cur
       IN SeedLogs([s \in DOMAIN logs \cup {seat.id} |->
                      IF s = seat.id THEN seeded ELSE logs[s]],
                   Tail(seatArray), timestamp)

\* startSimulationLoop that also initializes the logs of the first frame's
\* seats, as the fetch script does
startSimulationLoop_seeding(data) ==
  IF Len(data) = 0
  THEN [currentSeats |-> currentSeats, lastTimestamp |-> lastTimestamp,
        currentSeatLogs |-> currentSeatLogs,
        summary |-> summary, statusText |-> statusText,
        currentIndex |-> currentIndex,
        simulationInterval |-> simulationInterval]
  ELSE LET p == processBackendData(data[1])
       IN [currentSeats |-> p.seatArray, lastTimestamp |-> p.timestamp,
           currentSeatLogs |->
             SeedLogs(currentSeatLogs, p.seatArray, p.timestamp),
           summary |-> <<updateSummaryCards(p.seatArray, p.timestamp)>>,
           statusText |-> LastUpdatedText(p.timestamp),
           currentIndex |-> 1,
           simulationInterval |-> TRUE]

\* startSimulationLoop without the early return for an empty list: the timer
\* is started all the same
startSimulationLoop_noReturn(data) ==
  IF Len(data) = 0
  THEN [currentSeats |-> currentSeats, lastTimestamp |-> lastTimestamp,
        currentSeatLogs |-> currentSeatLogs,
        summary |-> summary, statusText |-> statusText,
        currentIndex |-> 1,
        simulationInterval |-> TRUE]
  ELSE LET p == processBackendData(data[1])
       IN [currentSeats |-> p.seatArray, lastTimestamp |-> p.timestamp,
           currentSeatLogs |-> currentSeatLogs,
           summary |-> <<updateSummaryCards(p.seatArray, p.timestamp)>>,
           statusText |-> LastUpdatedText(p.timestamp),
           currentIndex |-> 1,
           simulationInterval |-> TRUE]

\* startSimulationLoop, given the freshly loaded frame list: the part of the
\* state it assigns
startSimulationLoop(data) ==
  IF Len(data) = 0
  THEN [currentSeats |-> currentSeats, lastTimestamp |-> lastTimestamp,
        currentSeatLogs |-> currentSeatLogs,
        summary |-> summary, statusText |-> statusText,
        currentIndex |-> currentIndex,
        simulationInterval |-> simulationInterval]
  ELSE LET p == processBackendData(data[1])
       IN [currentSeats |-> p.seatArray, lastTimestamp |-> p.timestamp,
           currentSeatLogs |-> currentSeatLogs,
           summary |-> <<updateSummaryCards(p.seatArray, p.timestamp)>>,
           statusText |-> LastUpdatedText(p.timestamp),
           currentIndex |-> 1,
           simulationInterval |-> TRUE]

\* a seeding that leaves the cursor on frame 0
LoadSimulation_cursorZero(data) ==
  /\ mode = "replay"
  /\ ~loaded
  /\ simulationData' = data
  /\ LET r == startSimulationLoop(data)
     IN /\ currentSeats' = r.currentSeats
        /\ lastTimestamp' = r.lastTimestamp
        /\ currentSeatLogs' = r.currentSeatLogs
        /\ summary' = r.summary
        /\ statusText' = r.statusText
        /\ currentIndex' = 0
        /\ simulationInterval' = r.simulationInterval
        /\ clickable' = renderSeatMap(clickable, r.currentSeats)
  /\ loaded' = TRUE
  /\ lastOp' = "startSimulationLoop"
  /\ lastData' = IF Len(data) = 0 THEN lastData ELSE data[1]
  /\ UNCHANGED <<mode, recorded, signals, alerts, emitted, lastMessage, error, ticks, detailId, panel>>

\* replay script, DOMContentLoaded: the file holds an array of frames
LoadSimulation(data) ==
  /\ mode = "replay"
  /\ ~loaded
  /\ simulationData' = data
  /\ LET r == startSimulationLoop(data)
     IN /\ currentSeats' = r.currentSeats
        /\ lastTimestamp' = r.lastTimestamp
        /\ currentSeatLogs' = r.currentSeatLogs
        /\ summary' = r.summary
        /\ statusText' = r.statusText
        /\ currentIndex' = r.currentIndex
        /\ simulationInterval' = r.simulationInterval
        /\ clickable' = renderSeatMap(clickable, r.currentSeats)
  /\ loaded' = TRUE
  /\ lastOp' = "startSimulationLoop"
  /\ lastData' = IF Len(data) = 0 THEN lastData ELSE data[1]
  /\ UNCHANGED <<mode, recorded, signals, alerts, emitted, lastMessage, error, ticks, detailId, panel>>

\* replay script, DOMContentLoaded: the file holds one snapshot object
LoadStatic(data) ==
  /\ mode = "replay"
  /\ ~loaded
  /\ LET p == processBackendData(data)
     IN /\ currentSeats' = p.seatArray
        /\ summary' = <<updateSummaryCards(p.seatArray, p.timestamp)>>
        /\ statusText' = LastUpdatedText(p.timestamp)
        /\ clickable' = renderSeatMap(clickable, p.seatArray)
  /\ loaded' = TRUE
  /\ lastOp' = "loadStatic"
  /\ lastData' = data
  /\ UNCHANGED <<mode, recorded, signals, alerts, emitted, lastMessage, lastTimestamp, currentSeatLogs, simulationData,
                 currentIndex, simulationInterval, error, ticks,
                 detailId, panel>>

\* replay script, DOMContentLoaded: the fetch is rejected
LoadFailed ==
  /\ mode = "replay"
  /\ ~loaded
  /\ loaded' = TRUE
  /\ statusText' = ErrorLoadingText
  /\ lastOp' = "loadFailed"
  /\ UNCHANGED <<mode, recorded, signals, alerts, emitted, lastMessage, currentSeats, lastTimestamp, currentSeatLogs,
                 simulationData, currentIndex, simulationInterval, summary,
                 error, ticks, lastData, detailId, panel, clickable>>

\* runUpdateStep that keeps the held table when the frame has no valid seat
RunUpdateStep_keepsTable ==
  /\ mode = "replay"
  /\ simulationInterval
  /\ ticks < MaxReplay
  /\ IF currentIndex >= Len(simulationData)
     THEN /\ error' = TRUE
          /\ lastOp' = "runUpdateStepThrew"
          /\ UNCHANGED <<currentSeats, lastTimestamp, currentSeatLogs,
                         summary, currentIndex, lastData, panel, clickable,
                         statusText>>
     ELSE LET currentFrame == simulationData[currentIndex + 1]
              processed == processBackendData(currentFrame)
              next == currentIndex + 1
          IN /\ currentSeatLogs' =
                  LogTransitions(currentSeatLogs, currentSeats,
                                 processed.seatArray, processed.timestamp)
             /\ currentSeats' = IF processed.seatArray = <<>> THEN currentSeats
                               ELSE processed.seatArray
             /\ lastTimestamp' = processed.timestamp
             /\ summary' = <<updateSummaryCards(processed.seatArray,
                                                processed.timestamp)>>
             /\ statusText' = LastUpdatedText(processed.timestamp)
             /\ currentIndex' =
                  IF next >= Len(simulationData) THEN 0 ELSE next
             /\ panel' = RenderTransitions(panel, detailId, currentSeatLogs,
                                           currentSeats, processed.seatArray,
                                           processed.timestamp)
             /\ clickable' = renderSeatMap(clickable, processed.seatArray)
             /\ lastData' = currentFrame
             /\ lastOp' = "runUpdateStep"
             /\ UNCHANGED error
  /\ ticks' = ticks + 1
  /\ UNCHANGED <<mode, recorded, signals, alerts, emitted, lastMessage, simulationData, simulationInterval, loaded,
                 detailId>>

\* runUpdateStep, called by the interval timer.  simulationData[currentIndex]
\* is undefined when the index is past the end; processBackendData then
\* throws a TypeError on jsonObject.timestamp before anything is assigned.
RunUpdateStep ==
  /\ mode = "replay"
  /\ simulationInterval
  /\ ticks < MaxReplay
  /\ IF currentIndex >= Len(simulationData)
     THEN /\ error' = TRUE
          /\ lastOp' = "runUpdateStepThrew"
          /\ UNCHANGED <<currentSeats, lastTimestamp, currentSeatLogs,
                         summary, currentIndex, lastData, panel, clickable,
                         statusText>>
     ELSE LET currentFrame == simulationData[currentIndex + 1]
              processed == processBackendData(currentFrame)
              next == currentIndex + 1
          IN /\ currentSeatLogs' =
                  LogTransitions(currentSeatLogs, currentSeats,
                                 processed.seatArray, processed.timestamp)
             /\ currentSeats' = processed.seatArray
             /\ lastTimestamp' = processed.timestamp
             /\ summary' = <<updateSummaryCards(processed.seatArray,
                                                processed.timestamp)>>
             /\ statusText' = LastUpdatedText(processed.timestamp)
             /\ currentIndex' =
                  IF next >= Len(simulationData) THEN 0 ELSE next
             /\ panel' = RenderTransitions(panel, detailId, currentSeatLogs,
                                           currentSeats, processed.seatArray,
                                           processed.timestamp)
             /\ clickable' = renderSeatMap(clickable, processed.seatArray)
             /\ lastData' = currentFrame
             /\ lastOp' = "runUpdateStep"
             /\ UNCHANGED error
  /\ ticks' = ticks + 1
  /\ UNCHANGED <<mode, recorded, signals, alerts, emitted, lastMessage, simulationData, simulationInterval, loaded,
                 detailId>>

\* fetchSeatStatusFromBackend: a failed fetch yields no seats and the
\* current time
fetchSeatStatusFromBackend(ok, data) ==
  IF ok THEN processBackendData(data)
  ELSE [seatArray |-> <<>>, timestamp |-> "now"]

\* fetch script, DOMContentLoaded
InitialFetch(ok, data) ==
  /\ mode = "fetch"
  /\ ~loaded
  /\ LET p == fetchSeatStatusFromBackend(ok, data)
     IN /\ currentSeats' = p.seatArray
        /\ lastTimestamp' = p.timestamp
        /\ currentSeatLogs' = SeedLogs(currentSeatLogs, p.seatArray, p.timestamp)
        /\ summary' = <<updateSummaryCards(p.seatArray, p.timestamp)>>
        /\ statusText' = LastUpdatedText(p.timestamp)
        /\ lastData' = IF ok THEN data ELSE lastData
        /\ clickable' = renderSeatMap(clickable, p.seatArray)
  /\ loaded' = TRUE
  /\ ticks' = ticks + 1
  /\ lastOp' = "initialFetch"
  /\ UNCHANGED <<mode, recorded, signals, alerts, emitted, lastMessage, simulationData, currentIndex, simulationInterval,
                 error, detailId, panel>>

\* The socket handlers below do not consult the connection state, and the
\* events are delivered in any order.

\* a connect handler that starts the detection on the first connection only
OnConnect_firstOnly ==
  /\ SocketOpen
  /\ statusText' = updateConnectionStatus("Connected", TRUE, lastTimestamp)
  /\ emitted' = IF emitted = 0 THEN 1 ELSE emitted
  /\ signals' = signals + 1
  /\ lastOp' = "connect"
  /\ UNCHANGED <<mode, recorded, currentSeats, lastTimestamp, currentSeatLogs,
                 simulationData, currentIndex, simulationInterval, summary,
                 loaded, error, ticks, lastData, detailId, panel, clickable,
                 alerts, lastMessage>>

\* socket.on("connect")
OnConnect ==
  /\ SocketOpen
  /\ statusText' = updateConnectionStatus("Connected", TRUE, lastTimestamp)
  /\ emitted' = emitted + 1
  /\ signals' = signals + 1
  /\ lastOp' = "connect"
  /\ UNCHANGED <<mode, recorded, currentSeats, lastTimestamp, currentSeatLogs,
                 simulationData, currentIndex, simulationInterval, summary,
                 loaded, error, ticks, lastData, detailId, panel, clickable,
                 alerts, lastMessage>>

\* a disconnect handler that forgets the held seats
OnDisconnect_clears ==
  /\ SocketOpen
  /\ statusText' = updateConnectionStatus("Disconnected", FALSE, lastTimestamp)
  /\ currentSeats' = <<>>
  /\ signals' = signals + 1
  /\ lastOp' = "disconnect"
  /\ UNCHANGED <<mode, recorded, lastTimestamp, currentSeatLogs,
                 simulationData, currentIndex, simulationInterval, summary,
                 loaded, error, ticks, lastData, detailId, panel, clickable,
                 alerts, emitted, lastMessage>>

\* socket.on("disconnect")
OnDisconnect ==
  /\ SocketOpen
  /\ statusText' = updateConnectionStatus("Disconnected", FALSE, lastTimestamp)
  /\ signals' = signals + 1
  /\ lastOp' = "disconnect"
  /\ UNCHANGED <<mode, recorded, currentSeats, lastTimestamp, currentSeatLogs,
                 simulationData, currentIndex, simulationInterval, summary,
                 loaded, error, ticks, lastData, detailId, panel, clickable,
                 alerts, emitted, lastMessage>>

\* socket.on("connection_status"): writes to the console only
OnConnectionStatus ==
  /\ SocketOpen
  /\ signals' = signals + 1
  /\ lastOp' = "connection_status"
  /\ UNCHANGED <<mode, recorded, currentSeats, lastTimestamp, currentSeatLogs,
                 simulationData, currentIndex, simulationInterval, summary,
                 loaded, error, ticks, lastData, detailId, panel, clickable,
                 statusText, alerts, emitted, lastMessage>>

\* socket.on("detection_started")
OnDetectionStarted ==
  /\ SocketOpen
  /\ statusText' =
       updateConnectionStatus("Detection Active", TRUE, lastTimestamp)
  /\ signals' = signals + 1
  /\ lastOp' = "detection_started"
  /\ UNCHANGED <<mode, recorded, currentSeats, lastTimestamp, currentSeatLogs,
                 simulationData, currentIndex, simulationInterval, summary,
                 loaded, error, ticks, lastData, detailId, panel, clickable,
                 alerts, emitted, lastMessage>>

\* socket.on("detection_stopped")
OnDetectionStopped ==
  /\ SocketOpen
  /\ statusText' =
       updateConnectionStatus("Detection Stopped", FALSE, lastTimestamp)
  /\ signals' = signals + 1
  /\ lastOp' = "detection_stopped"
  /\ UNCHANGED <<mode, recorded, currentSeats, lastTimestamp, currentSeatLogs,
                 simulationData, currentIndex, simulationInterval, summary,
                 loaded, error, ticks, lastData, detailId, panel, clickable,
                 alerts, emitted, lastMessage>>

\* the error handler's decision to call alert(): the script on port 5050
\* tests the message, the one on port 5000 does not
ShowsAlert(script, message) ==
  IF script = "push5000" THEN TRUE
  ELSE ~Includes(ToLowerCase(message), AlreadyRunning)

\* socket.on("error")
OnError(data) ==
  /\ SocketOpen
  /\ alerts' = IF ShowsAlert(mode, data.message) THEN alerts + 1 ELSE alerts
  /\ lastMessage' = data.message
  /\ signals' = signals + 1
  /\ lastOp' = "error"
  /\ UNCHANGED <<mode, recorded, currentSeats, lastTimestamp, currentSeatLogs,
                 simulationData, currentIndex, simulationInterval, summary,
                 loaded, error, ticks, lastData, detailId, panel, clickable,
                 statusText, emitted>>

\* showSeatDetails that names the seat and leaves the log list alone
showSeatDetails_idOnly(logs, seatId, shown) ==
  [detailId |-> seatId, panel |-> shown]

\* showSeatDetails: what #detail-id and #log-list show afterwards
showSeatDetails(logs, seatId, shown) ==
  [detailId |-> seatId, panel |-> renderLogList(logs, seatId, shown)]

\* handleSeatClick assigning the seat it found to currentSeats instead of
\* currentSelectedSeat
HandleSeatClick_overwritesTable(seatId) ==
  /\ seatId \in clickable
  /\ LET r == showSeatDetails(currentSeatLogs, seatId, panel)
         k == Find(currentSeats, seatId)
     IN /\ detailId' = r.detailId
        /\ panel' = r.panel
        /\ currentSeats' = IF k = 0 THEN <<>> ELSE <<currentSeats[k]>>
  /\ lastOp' = "click"
  /\ UNCHANGED <<mode, recorded, signals, alerts, emitted, lastMessage,
                 lastTimestamp, currentSeatLogs, simulationData, currentIndex,
                 simulationInterval, summary, loaded, error, ticks, lastData,
                 clickable, statusText>>

\* handleSeatClick, run by the onclick handler of a seat wrapper
HandleSeatClick(seatId) ==
  /\ seatId \in clickable
  /\ LET r == showSeatDetails(currentSeatLogs, seatId, panel)
     IN /\ detailId' = r.detailId
        /\ panel' = r.panel
  /\ lastOp' = "click"
  /\ UNCHANGED <<mode, recorded, signals, alerts, emitted, lastMessage, currentSeats, lastTimestamp, currentSeatLogs,
                 simulationData, currentIndex, simulationInterval, summary,
                 loaded, error, ticks, lastData, clickable, statusText>>

Next ==
  \/ /\ SocketOpen
     /\ \E raw \in PushSnapshots :
          StatusUpdate([timestamp |-> Stamp(ticks + 1), status_codes |-> raw])
  \/ /\ mode = "replay" /\ ~loaded
     /\ \E data \in FrameLists : LoadSimulation(data)
  \/ /\ mode = "replay" /\ ~loaded
     /\ \E raw \in ReplaySnapshots :
          LoadStatic([timestamp |-> Stamp(0), status_codes |-> raw])
  \/ OnConnect
  \/ OnDisconnect
  \/ OnConnectionStatus
  \/ OnDetectionStarted
  \/ OnDetectionStopped
  \/ \E message \in ErrorMessages : OnError([message |-> message])
  \/ LoadFailed
  \/ RunUpdateStep
  \/ \E seatId \in clickable : HandleSeatClick(seatId)
  \/ /\ mode = "fetch" /\ ~loaded
     /\ \E ok \in BOOLEAN, raw \in PushSnapshots :
          InitialFetch(ok, [timestamp |-> Stamp(1), status_codes |-> raw])

Spec == Init /\ [][Next]_vars

\* ------------------------------------------------ the replay left running
\* runUpdateStep as the interval timer calls it for as long as the page is
\* open: the same handler as RunUpdateStep, with ticks keeping only the
\* parity of the count so that the timer can fire forever
TimerTick ==
  /\ mode = "replay"
  /\ simulationInterval
  /\ IF currentIndex >= Len(simulationData)
     THEN /\ error' = TRUE
          /\ lastOp' = "runUpdateStepThrew"
          /\ UNCHANGED <<currentSeats, lastTimestamp, currentSeatLogs,
                         summary, currentIndex, lastData, panel, clickable,
                         statusText>>
     ELSE LET currentFrame == simulationData[currentIndex + 1]
              processed == processBackendData(currentFrame)
              next == currentIndex + 1
          IN /\ currentSeatLogs' =
                  LogTransitions(currentSeatLogs, currentSeats,
                                 processed.seatArray, processed.timestamp)
             /\ currentSeats' = processed.seatArray
             /\ lastTimestamp' = processed.timestamp
             /\ summary' = <<updateSummaryCards(processed.seatArray,
                                                processed.timestamp)>>
             /\ statusText' = LastUpdatedText(processed.timestamp)
             /\ currentIndex' =
                  IF next >= Len(simulationData) THEN 0 ELSE next
             /\ panel' = RenderTransitions(panel, detailId, currentSeatLogs,
                                           currentSeats, processed.seatArray,
                                           processed.timestamp)
             /\ clickable' = renderSeatMap(clickable, processed.seatArray)
             /\ lastData' = currentFrame
             /\ lastOp' = "runUpdateStep"
             /\ UNCHANGED error
  /\ ticks' = (ticks + 1) % 2
  /\ UNCHANGED <<mode, recorded, signals, alerts, emitted, lastMessage, simulationData, simulationInterval, loaded,
                 detailId>>

LiveInit == Init /\ mode = "replay"

LiveNext ==
  \/ /\ ~loaded
     /\ \E data \in FrameLists : LoadSimulation(data)
  \/ TimerTick
  \/ \E seatId \in clickable : HandleSeatClick(seatId)

\* setInterval keeps calling runUpdateStep
LiveSpec == LiveInit /\ [][LiveNext]_vars /\ WF_vars(TimerTick)

\* ------------------------------------------------- addLogEntry on its own
\* addLogEntry called with any seat, a fresh timestamp and any status it is
\* called with by the forEach (a change into Occupied), starting from the
\* empty log store of the socket script
MaxCalls == 7

\* calls made so far
Calls == Len(LogsOf(recorded, kT1)) + Len(LogsOf(recorded, kT2))

AddLogEntry(seatId, timestamp, oldStatus, newStatus) ==
  /\ Calls < MaxCalls
  /\ currentSeatLogs' =
       addLogEntry(currentSeatLogs, seatId, timestamp, oldStatus, newStatus)
  /\ panel' = IF detailId = seatId
              THEN renderLogList(currentSeatLogs', seatId, panel)
              ELSE panel
  /\ recorded' =
       [s \in DOMAIN recorded \cup {seatId} |->
          IF s = seatId
          THEN Append(LogsOf(recorded, seatId),
                      [t |-> timestamp, msg |-> Message(oldStatus, newStatus)])
          ELSE recorded[s]]
  /\ lastOp' = "addLogEntry"
  /\ UNCHANGED <<mode, currentSeats, lastTimestamp, simulationData,
                 currentIndex, simulationInterval, summary, loaded, error,
                 ticks, lastData, detailId, clickable, statusText, signals,
                 alerts, emitted, lastMessage>>

LogInit == Init /\ mode = "push"

LogNext ==
  \E seatId \in {kT1, kT2}, oldStatus \in {Empty, OnHold} :
    AddLogEntry(seatId, Stamp(Calls + 1), oldStatus, Occupied)

LogSpec == LogInit /\ [][LogNext]_vars

\* --------------------------------------------------------------- properties
\* canonical seat ids of the input domain
AllIds ==
  {ToUpperCase(PushKeys[i]) : i \in 1..Len(PushKeys)}
    \cup {ToUpperCase(ReplayKeys[i]) : i \in 1..Len(ReplayKeys)}

\* the seat list has an entry for this id
Present(seats, id) == \E i \in 1..Len(seats) : seats[i].id = id

\* the seat list has an entry for this id with this status
HasEntry(seats, id, st) ==
  \E i \in 1..Len(seats) : seats[i].id = id /\ seats[i].status = st

\* a step in which a push event or a timer tick applied a snapshot
TickStep ==
  /\ ticks' = ticks + 1
  /\ lastOp' \in {"status_update", "runUpdateStep"}

\* C1: in every reachable state, under either driver, every seat's log in
\* currentSeatLogs holds at most 5 entries.
C1_LogAtMostFive ==
  \A s \in DOMAIN currentSeatLogs : Len(currentSeatLogs[s]) <= 5

\* A replay of two frames records for T1 on every odd tick (the entries
\* carry frame 1's timestamp); at tick 11 the sixth entry has been recorded
\* and the log holds five.
C1_Witness ==
  /\ mode = "replay"
  /\ Len(simulationData) = 2
  /\ ticks >= 11
  /\ kT1 \in DOMAIN currentSeatLogs
  /\ Len(currentSeatLogs[kT1]) = 5
  /\ currentSeatLogs[kT1][1].t = Stamp(1)

\* C2: in any tick, a seat that the new snapshot reports and reports only as
\* On-Hold or Empty has the same log after the tick as before it, whatever
\* its previous status was.
C2_OnlyOccupiedLogged ==
  [][TickStep =>
       \A s \in AllIds :
         (Present(currentSeats', s) /\ ~HasEntry(currentSeats', s, Occupied))
           => LogsOf(currentSeatLogs', s) = LogsOf(currentSeatLogs, s)]_vars

\* T1 became Occupied in frame 1 (its only log entry says so) and is Empty
\* again after the second tick: the change Occupied to Empty left no entry.
C2_Witness ==
  /\ mode = "replay"
  /\ lastOp = "runUpdateStep"
  /\ ticks = 2
  /\ currentSeats = <<[id |-> kT1, status |-> Empty]>>
  /\ kT1 \in DOMAIN currentSeatLogs
  /\ currentSeatLogs[kT1] =
       <<[t |-> Stamp(1), msg |-> Message(Empty, Occupied)]>>

\* a step in which any handler applied a snapshot to the held table
ApplyStep ==
  \/ /\ ticks' = ticks + 1
     /\ lastOp' \in {"status_update", "runUpdateStep", "initialFetch"}
  \/ /\ ~loaded /\ loaded'
     /\ lastOp' \in {"startSimulationLoop", "loadStatic"}

\* C3: whenever a snapshot is applied, a seat in it that is absent from the
\* held table (the first snapshot after start included) keeps its log
\* unchanged.
C3_FirstAppearanceNotLogged ==
  [][ApplyStep =>
       \A s \in AllIds :
         (Present(currentSeats', s) /\ ~Present(currentSeats, s))
           => LogsOf(currentSeatLogs', s) = LogsOf(currentSeatLogs, s)]_vars

\* C4: applying a snapshot with the same status_codes as the one applied just
\* before leaves currentSeatLogs as it was.
C4_SameSnapshotTwice ==
  [][(TickStep /\ lastData # NoData
        /\ lastData'.status_codes = lastData.status_codes)
       => currentSeatLogs' = currentSeatLogs]_vars

\* the seeding of the replay by startSimulationLoop
SeedStep ==
  /\ ~loaded /\ loaded'
  /\ lastOp' = "startSimulationLoop"

\* a timer tick that applied frame 0 (the frame stamped Stamp(0))
FrameZeroTick ==
  /\ ticks' = ticks + 1
  /\ lastOp' = "runUpdateStep"
  /\ lastData'.timestamp = Stamp(0)

\* C5 as stated: every application of frame 0, the seeding and each later one
\* after the cursor wrapped, leaves currentSeatLogs unchanged.
C5_FrameZeroNeverLogs ==
  [][(SeedStep \/ FrameZeroTick) => currentSeatLogs' = currentSeatLogs]_vars

\* C5 amended: the seeding application of frame 0 by startSimulationLoop
\* leaves currentSeatLogs unchanged.
C5_SeedingNeverLogs ==
  [][SeedStep => currentSeatLogs' = currentSeatLogs]_vars

\* the replay has just been seeded with a frame that reports seats
C5_Witness ==
  /\ lastOp = "startSimulationLoop"
  /\ HasEntry(currentSeats, kT1, Occupied)
  /\ HasEntry(currentSeats, kT2, Empty)
  /\ currentIndex = 1
  /\ simulationInterval
  /\ currentSeatLogs = <<>>

\* C6: every timer tick of the replay applies the frame under the cursor and
\* moves the cursor to the next index, wrapping to 0 after the last frame.
C6_CursorCycles ==
  [][(mode = "replay" /\ ticks' = ticks + 1) =>
       /\ currentIndex < Len(simulationData)
       /\ lastData' = simulationData[currentIndex + 1]
       /\ currentIndex' = (currentIndex + 1) % Len(simulationData)]_vars

\* C7: the counts written to the summary cards satisfy
\* Occupied + On-Hold + Empty = Total, and Total is the length of the
\* normalized seat list.
C7_CountsSumToTotal ==
  Len(summary) = 1 =>
    LET c == summary[1].counts
    IN /\ c[Occupied] + c[OnHold] + c[Empty] = c["Total"]
       /\ c["Total"] = Len(currentSeats)

\* a push tick whose snapshot had three keys and whose cards show one
\* Occupied, one On-Hold, one Empty, total three
C7_Witness ==
  /\ lastOp = "status_update"
  /\ Len(lastData.status_codes) = 3
  /\ Len(summary) = 1
  /\ summary[1].counts[Occupied] = 1
  /\ summary[1].counts[OnHold] = 1
  /\ summary[1].counts[Empty] = 1
  /\ summary[1].counts["Total"] = 3

\* C8: in a tick a seat gains a log entry exactly when it is in the held
\* table with a status other than Occupied and the new snapshot reports it
\* Occupied; it then gains exactly one entry (old status, new timestamp), and
\* every other seat's log is unchanged.
C8_ExactlyOneEntryIff ==
  [][TickStep =>
       \A s \in AllIds :
         LET k == Find(currentSeats, s)
         IN IF k # 0 /\ currentSeats[k].status # Occupied
                    /\ HasEntry(currentSeats', s, Occupied)
            THEN LogsOf(currentSeatLogs', s) =
                   Slice(<<[t |-> lastTimestamp',
                            msg |-> Message(currentSeats[k].status, Occupied)]>>
                           \o LogsOf(currentSeatLogs, s), 5)
            ELSE LogsOf(currentSeatLogs', s) = LogsOf(currentSeatLogs, s)]_vars

\* C9: after every tick the held table is the normalization of the snapshot
\* just applied and nothing else: every seat in it is reported by that
\* snapshot.
C9_TableIsLastSnapshot ==
  lastOp \in {"status_update", "runUpdateStep"} =>
    /\ currentSeats = processBackendData(lastData).seatArray
    /\ \A i \in 1..Len(currentSeats) :
         \E j \in 1..Len(lastData.status_codes) :
           /\ ToUpperCase(lastData.status_codes[j].key) = currentSeats[i].id
           /\ STATUS_MAP(lastData.status_codes[j].code) = currentSeats[i].status

\* T1 was in the table in earlier ticks (it has a log) and the last snapshot
\* reported only T2: the table holds T2 alone.
C9_Witness ==
  /\ lastOp = "status_update"
  /\ ticks >= 3
  /\ kT1 \in DOMAIN currentSeatLogs
  /\ currentSeats = <<[id |-> kT2, status |-> Empty]>>

\* positions of the raw entries whose code is 1, 2 or 3
ValidEntries(raw) == {i \in 1..Len(raw) : raw[i].code \in {1, 2, 3}}

\* C10: the seat list holds exactly the raw entries with a code in {1,2,3},
\* in order, under their uppercase ids; entries with another code are in
\* neither the list, the table nor the Total, and the tick raises no error.
C10_UnknownCodeDropped ==
  lastOp \in {"status_update", "runUpdateStep", "startSimulationLoop",
              "loadStatic"} =>
    LET raw == lastData.status_codes
        valid == ValidEntries(raw)
    IN /\ Len(currentSeats) = Cardinality(valid)
       /\ \A i \in valid :
            currentSeats[Cardinality({j \in valid : j <= i})] =
              [id |-> ToUpperCase(raw[i].key), status |-> STATUS_MAP(raw[i].code)]
       /\ \A i \in 1..Len(currentSeats) :
            currentSeats[i].status \in {Occupied, OnHold, Empty}
       /\ summary # <<>> => summary[1].counts["Total"] = Cardinality(valid)
       /\ ~error

\* the spec's example: {T1: 9, T2: 3} leaves only T2 Empty, Total 1
C10_Witness ==
  /\ lastOp = "status_update"
  /\ lastData.status_codes =
       <<[key |-> kT1, code |-> 9], [key |-> kT2, code |-> 3]>>
  /\ currentSeats = <<[id |-> kT2, status |-> Empty]>>
  /\ summary[1].counts["Total"] = 1
  /\ ~error

\* C11: the seat list returned by processBackendData, as held in
\* currentSeats after a snapshot was applied, has no two entries with the
\* same uppercase id.
C11_IdsUnique ==
  \A i, j \in 1..Len(currentSeats) :
    currentSeats[i].id = currentSeats[j].id => i = j

\* a step in which a seat wrapper was clicked
ClickStep == lastOp' = "click"

\* C12 (as claimed): selecting a seat that is absent from the held seat
\* table shows an empty log and raises no error.
C12_AbsentSeatShowsEmptyLog ==
  [][(ClickStep /\ ~Present(currentSeats, detailId'))
       => (panel'.entries = <<>> /\ error' = error)]_vars

\* C12 (amended): selecting a seat that is absent from the held seat table
\* shows the log stored for that seat, which is empty exactly when nothing
\* was recorded for it, and raises no error.
C12_AbsentSeatShowsStoredLog ==
  [][(ClickStep /\ ~Present(currentSeats, detailId'))
       => /\ panel'.entries = LogsOf(currentSeatLogs, detailId')
          /\ (panel'.entries = <<>>) <=> (detailId' \notin DOMAIN currentSeatLogs)
          /\ error' = error]_vars

\* a seat that was logged and has vanished from the table is selected and
\* the panel shows its entry
C12_Witness ==
  /\ lastOp = "click"
  /\ detailId = kT1
  /\ ~Present(currentSeats, kT1)
  /\ Len(currentSeats) > 0
  /\ kT1 \in DOMAIN currentSeatLogs
  /\ panel.entries = currentSeatLogs[kT1]
  /\ Len(panel.entries) = 1

\* C13: showing the log of a seat for which no entry was ever recorded
\* yields the empty list (the placeholder) and no error.
C13_UnrecordedSeatShowsEmpty ==
  [][(ClickStep /\ detailId' \notin DOMAIN currentSeatLogs)
       => /\ panel'.entries = <<>>
          /\ panel'.placeholder # ""
          /\ error' = error]_vars

\* after the log of T1 was shown, T2, which has no entry, is selected
C13_Witness ==
  /\ lastOp = "click"
  /\ detailId = kT2
  /\ kT2 \notin DOMAIN currentSeatLogs
  /\ kT1 \in DOMAIN currentSeatLogs
  /\ panel = PanelNoLogs

\* the summary counts of a snapshot without seats
ZeroCounts == [k \in CountKeys |-> 0]

\* C14: a snapshot without a valid seat (no key, or unknown codes only)
\* completes its tick: the counts are all 0, the held table becomes empty,
\* no log changes and no error is raised.
C14_EmptySnapshotTick ==
  [][(TickStep /\ ValidEntries(lastData'.status_codes) = {})
       => /\ currentSeats' = <<>>
          /\ summary' = <<[counts |-> ZeroCounts,
                           timestamp |-> lastData'.timestamp]>>
          /\ currentSeatLogs' = currentSeatLogs
          /\ error' = error]_vars

\* after T1 was held and logged, a snapshot with only an unknown code was
\* applied
C14_Witness ==
  /\ lastOp = "status_update"
  /\ lastData.status_codes = <<[key |-> kT1, code |-> 9]>>
  /\ kT1 \in DOMAIN currentSeatLogs
  /\ currentSeats = <<>>
  /\ summary[1].counts["Total"] = 0
  /\ ~error

\* a step in which a connectivity event was handled
SignalStep == signals' = signals + 1

\* C15: connect, disconnect, connection_status, detection_started,
\* detection_stopped and error leave the held seat table, the last timestamp
\* and every seat log unchanged, so that afterwards the held state is still
\* that of the last snapshot applied.
C15_ConnectivityKeepsHeldState ==
  [][SignalStep
       => /\ currentSeats' = currentSeats
          /\ lastTimestamp' = lastTimestamp
          /\ currentSeatLogs' = currentSeatLogs
          /\ (ticks' > 0 =>
                /\ currentSeats' = processBackendData(lastData').seatArray
                /\ lastTimestamp' = lastData'.timestamp)]_vars

\* the socket disconnected after two snapshots; T1 is still held Occupied
\* with its log entry and the status line names the last timestamp
C15_Witness ==
  /\ lastOp = "disconnect"
  /\ ticks = 2
  /\ currentSeats = <<[id |-> kT1, status |-> Occupied]>>
  /\ kT1 \in DOMAIN currentSeatLogs
  /\ statusText = updateConnectionStatus("Disconnected", FALSE, Stamp(2))

\* the message of the last error event is a repeated-start notification
Benign(message) == Includes(ToLowerCase(message), AlreadyRunning)

\* C16: an error event raises exactly one alert unless its message contains
\* "already running" in any casing, in which case it raises none; in both
\* socket scripts.
C16_AlertIffTrueError ==
  [][(SignalStep /\ lastOp' = "error")
       => alerts' = IF Benign(lastMessage') THEN alerts ELSE alerts + 1]_vars

\* C17: once a seat was selected, the log shown in the detail panel is the
\* stored log of the seat named there: an entry recorded for that seat
\* re-renders the panel in the same tick.
C17_PanelNeverStale ==
  detailId # NoSeatChosen => panel.entries = LogsOf(currentSeatLogs, detailId)

\* T1 was selected while its log was empty; the next snapshot recorded an
\* entry for it and the panel shows that entry
C17_Witness ==
  /\ lastOp = "status_update"
  /\ ticks = 2
  /\ detailId = kT1
  /\ panel.entries = <<[t |-> Stamp(2), msg |-> Message(Empty, Occupied)]>>
  /\ LogsOf(currentSeatLogs, kT1) = panel.entries

\* the last LogCap elements of a history, newest first
NewestFirst(h) ==
  LET n == IF Len(h) > LogCap THEN LogCap ELSE Len(h)
  IN [i \in 1..n |-> h[Len(h) + 1 - i]]

\* C18: after k entries were recorded for a seat, its log holds exactly the
\* last min(k, 5) of them, newest first.
C18_NewestFirstFifo ==
  \A id \in {kT1, kT2} :
    LogsOf(currentSeatLogs, id) = NewestFirst(LogsOf(recorded, id))

\* six entries were recorded for T1, with different From statuses: the log
\* holds the last five, the first one was evicted, and T2 has its own entry
C18_Witness ==
  /\ lastOp = "addLogEntry"
  /\ kT1 \in DOMAIN recorded /\ kT2 \in DOMAIN recorded
  /\ Len(recorded[kT1]) = 6
  /\ Len(currentSeatLogs[kT1]) = LogCap
  /\ currentSeatLogs[kT1][1] = recorded[kT1][6]
  /\ currentSeatLogs[kT1][LogCap] = recorded[kT1][2]
  /\ currentSeatLogs[kT1][1].msg # currentSeatLogs[kT1][2].msg
  /\ Len(currentSeatLogs[kT2]) = 1

\* C19: starting the replay with a non-empty frame list applies frame 0
\* once, at once and without transition detection: the held table becomes
\* the normalized frame 0, no log changes, no timer tick is counted, and the
\* cursor is left at index 1 with the timer started.
C19_SeedAppliesFrameZero ==
  [][(SeedStep /\ Len(simulationData') > 0)
       => /\ lastData' = simulationData'[1]
          /\ currentSeats' = processBackendData(simulationData'[1]).seatArray
          /\ lastTimestamp' = simulationData'[1].timestamp
          /\ currentSeatLogs' = currentSeatLogs
          /\ currentIndex' = 1
          /\ simulationInterval'
          /\ ticks' = 0]_vars

\* a two-frame list was loaded: the table shows frame 0 (T1 On-Hold) and
\* the cursor is on frame 1
C19_Witness ==
  /\ lastOp = "startSimulationLoop"
  /\ Len(simulationData) = 2
  /\ lastData = simulationData[1]
  /\ currentSeats = <<[id |-> kT1, status |-> OnHold]>>
  /\ lastTimestamp = Stamp(0)
  /\ currentIndex = 1
  /\ ticks = 0
  /\ currentSeatLogs = <<>>

\* the raw keys of the input domain that differ only in case, as
\* <<key in the previous snapshot, key in the new snapshot>>
CaseVariants == {<<kt1, kT1>>, <<kT1, kt1>>}

\* the snapshot has a valid entry under this raw key
Reports(raw, key) == \E i \in ValidEntries(raw) : raw[i].key = key

\* C20: when a seat is reported under one raw key in a snapshot and under a
\* key that differs only in case in the next one (each snapshot reporting it
\* under that one key only), the lookup finds it by its uppercase id: a change
\* into Occupied is recorded, with the old status, under the uppercase id.
C20_LookupByUppercaseId ==
  [][TickStep =>
       \A p \in CaseVariants :
         \A i \in ValidEntries(lastData.status_codes),
            j \in ValidEntries(lastData'.status_codes) :
           ( /\ lastData.status_codes[i].key = p[1]
             /\ lastData'.status_codes[j].key = p[2]
             /\ ~Reports(lastData.status_codes, p[2])
             /\ ~Reports(lastData'.status_codes, p[1])
             /\ lastData.status_codes[i].code # 1
             /\ lastData'.status_codes[j].code = 1 )
           => /\ kT1 \in DOMAIN currentSeatLogs'
              /\ kt1 \notin DOMAIN currentSeatLogs'
              /\ currentSeatLogs'[kT1] =
                   Slice(<<[t |-> lastData'.timestamp,
                            msg |-> Message(
                                      STATUS_MAP(lastData.status_codes[i].code),
                                      Occupied)]>>
                           \o LogsOf(currentSeatLogs, kT1), LogCap)]_vars

\* T1 was reported On-Hold under the key T1, then Occupied under the key t1
\* alone: the entry is in the log of T1 (t1 is never reported On-Hold)
C20_Witness ==
  /\ lastOp = "status_update"
  /\ ticks = 2
  /\ lastData.status_codes = <<[key |-> kt1, code |-> 1]>>
  /\ currentSeats = <<[id |-> kT1, status |-> Occupied]>>
  /\ DOMAIN currentSeatLogs = {kT1}
  /\ currentSeatLogs[kT1] =
       <<[t |-> Stamp(2), msg |-> Message(OnHold, Occupied)]>>

\* the globals of the socket script before any event
EmptyHeld ==
  [currentSeats |-> <<>>, lastTimestamp |-> "---", currentSeatLogs |-> <<>>]

\* the socket script receiving these snapshots one after the other
RECURSIVE PushRun(_, _)
PushRun(held, snapshots) ==
  IF snapshots = <<>> THEN held
  ELSE PushRun(onStatusUpdate(held, Head(snapshots)), Tail(snapshots))

\* the first n frames of the list repeated cyclically: f0, f1, ..., f0, ...
CyclicFrames(frames, n) ==
  [i \in 1..n |-> frames[((i - 1) % Len(frames)) + 1]]

EntriesFrom(seats, id, timestamp) ==
  {[t |-> timestamp, msg |-> Message(seats[i].status, Occupied)] :
     i \in {k \in 1..Len(seats) : seats[k].id = id}}

\* sequences of at most two elements of a set (one per raw key of a seat)
UpToTwo(S) == {<<>>} \cup {<<a>> : a \in S} \cup {<<a, b>> : a \in S, b \in S}

\* C22: the entries a tick adds to a seat's log carry the timestamp of the
\* snapshot being applied and, as From status, the status the seat had in
\* the table held before the tick, which is the normalized previous snapshot.
C22_FromIsPreviousStatus ==
  [][TickStep =>
       /\ (ticks > 0 =>
             currentSeats = processBackendData(lastData).seatArray)
       /\ \A id \in AllIds :
            \E added \in UpToTwo(EntriesFrom(currentSeats, id,
                                              lastData'.timestamp)) :
              LogsOf(currentSeatLogs', id) =
                Slice(added \o LogsOf(currentSeatLogs, id), LogCap)]_vars

\* On-Hold at the second snapshot, Occupied at the third: the only entry of
\* T1 is stamped 3 and goes from On-Hold
C22_Witness ==
  /\ lastOp = "status_update"
  /\ ticks = 3
  /\ currentSeats = <<[id |-> kT1, status |-> Occupied]>>
  /\ DOMAIN currentSeatLogs = {kT1}
  /\ currentSeatLogs[kT1] =
       <<[t |-> Stamp(3), msg |-> Message(OnHold, Occupied)]>>

\* C23: a tick records nothing for a seat that the previous snapshot did not
\* report (it appears, or reappears after a gap, whatever its status was
\* before the gap) and nothing for a seat that the new snapshot does not
\* report (it vanishes).
C23_NoEntryAcrossGap ==
  [][TickStep =>
       \A id \in AllIds :
         (~Present(currentSeats, id) \/ ~Present(currentSeats', id))
           => LogsOf(currentSeatLogs', id) = LogsOf(currentSeatLogs, id)]_vars

\* replay of <<{T2: Empty}, {T1: Occupied}>>: T1 appeared at tick 1, vanished
\* at tick 2 and reappeared Occupied at tick 3, and has no entry
C23_Witness ==
  /\ mode = "replay"
  /\ Len(simulationData) = 2
  /\ simulationData[1].status_codes = <<[key |-> kT2, code |-> 3]>>
  /\ simulationData[2].status_codes = <<[key |-> kT1, code |-> 1]>>
  /\ ticks = 3
  /\ lastOp = "runUpdateStep"
  /\ currentSeats = <<[id |-> kT1, status |-> Occupied]>>
  /\ currentSeatLogs = <<>>

\* C24: in the replay with a non-empty frame list, whenever the timer can
\* tick the cursor is an index of the list (0..len-1), so that runUpdateStep
\* reads an existing frame and never throws.
C24_CursorInRange ==
  (mode = "replay" /\ simulationInterval)
    => (currentIndex < Len(simulationData) /\ ~error)

\* a timer tick has just applied frame i (0-based) of the list
Applied(i) ==
  /\ i < Len(simulationData)
  /\ lastOp = "runUpdateStep"
  /\ lastData = simulationData[i + 1]

\* C25: in the replay with a non-empty frame list and a timer that keeps
\* firing, every frame of the list is applied by a tick again and again.
C25_EveryFrameInfinitelyOften ==
  \A i \in 0..(MaxFrames - 1) :
    [](( simulationInterval /\ i < Len(simulationData)) => <>Applied(i))

\* C26: in the socket scripts and in the replay script every entry of every
\* seat's log reads "On-Hold -> Occupied" or "Empty -> Occupied".
C26_EntriesAreArrivals ==
  mode # "fetch" =>
    \A id \in DOMAIN currentSeatLogs :
      \A i \in 1..Len(currentSeatLogs[id]) :
        currentSeatLogs[id][i].msg
          \in {<<OnHold, " -> ", Occupied>>, <<Empty, " -> ", Occupied>>}

\* a replay in which T1 was logged from On-Hold and T2 from Empty
C26_Witness ==
  /\ mode = "replay"
  /\ DOMAIN currentSeatLogs = {kT1, kT2}
  /\ currentSeatLogs[kT1][1].msg = <<OnHold, " -> ", Occupied>>
  /\ currentSeatLogs[kT2][1].msg = <<Empty, " -> ", Occupied>>
  /\ Len(currentSeatLogs[kT1]) >= 2

\* C27: no step (tick, connectivity event, click, load) shortens a seat's log
\* or drops it from the store, and a step of the socket scripts or of the
\* replay script leaves the log of a seat unchanged when the seat is absent
\* from the held table before or after it.
C27_LogsOnlyGrow ==
  [][\A id \in AllIds :
       /\ Len(LogsOf(currentSeatLogs', id)) >= Len(LogsOf(currentSeatLogs, id))
       /\ (id \in DOMAIN currentSeatLogs => id \in DOMAIN currentSeatLogs')
       /\ ((/\ mode # "fetch"
             /\ (~Present(currentSeats, id) \/ ~Present(currentSeats', id)))
             => LogsOf(currentSeatLogs', id) = LogsOf(currentSeatLogs, id))]_vars

\* T1 got two entries at the second snapshot; the third snapshot is empty,
\* the table is empty and the two entries are still stored
C27_Witness ==
  /\ lastOp = "status_update"
  /\ ticks = 3
  /\ lastData.status_codes = <<>>
  /\ currentSeats = <<>>
  /\ kT1 \in DOMAIN currentSeatLogs
  /\ Len(currentSeatLogs[kT1]) = 2
  /\ currentSeatLogs[kT1][1].t = Stamp(2)

\* C28: a click changes only the selection and the detail panel: the held
\* table, the log store, the last timestamp, the frame list and the replay
\* cursor stay as they are; and what a tick makes of the table and the logs
\* is a function of the held table, the held logs and the snapshot alone,
\* so that clicks between ticks do not change where the ticks lead.
C28_ClicksOnlySelect ==
  [][/\ ClickStep =>
          /\ UNCHANGED <<currentSeats, currentSeatLogs, lastTimestamp,
                         simulationData, currentIndex, simulationInterval,
                         ticks, lastData>>
          /\ detailId' \in clickable
     /\ TickStep =>
          LET r == onStatusUpdate([currentSeats |-> currentSeats,
                                   lastTimestamp |-> lastTimestamp,
                                   currentSeatLogs |-> currentSeatLogs],
                                  lastData')
          IN /\ currentSeats' = r.currentSeats
             /\ currentSeatLogs' = r.currentSeatLogs
             /\ lastTimestamp' = r.lastTimestamp]_vars

\* a click in the replay after three ticks: T1 is selected, its two entries
\* are shown, and the cursor still points at frame 0
C28_Witness ==
  /\ mode = "replay"
  /\ lastOp = "click"
  /\ ticks = 3
  /\ detailId = kT1
  /\ Len(simulationData) = 2
  /\ currentIndex = 0
  /\ Len(panel.entries) = 2
  /\ LogsOf(currentSeatLogs, kT1) = panel.entries

\* C29: in the socket scripts every connect event, the first and every
\* reconnection, sends exactly one start_detection request, and no other
\* step sends one.
C29_OneStartPerConnect ==
  [][emitted' = IF SignalStep /\ lastOp' = "connect"
                THEN emitted + 1 ELSE emitted]_vars

\* the socket connected, received a snapshot and connected again: two
\* requests were sent
C29_Witness ==
  /\ lastOp = "connect"
  /\ emitted = 2
  /\ signals = 2
  /\ ticks = 1
  /\ statusText = updateConnectionStatus("Connected", TRUE, Stamp(1))

\* C30: starting the replay with an empty frame list does nothing: no timer
\* is started, no tick ever runs, and the held table, the last timestamp,
\* the cursor and the log store keep their initial values.
C30_EmptyListIsNoOp ==
  (mode = "replay" /\ simulationData = <<>>)
    => /\ ~simulationInterval
       /\ ticks = 0
       /\ ~error
       /\ currentIndex = 0
       /\ lastTimestamp = "---"
       /\ currentSeatLogs = <<>>
       /\ (lastOp = "startSimulationLoop" =>
             (currentSeats = <<>> /\ summary = <<>> /\ clickable = {}))

\* the replay was started with an empty list
C30_Witness ==
  /\ mode = "replay"
  /\ loaded
  /\ lastOp = "startSimulationLoop"
  /\ simulationData = <<>>
  /\ ~simulationInterval
====
